---- MODULE Spec2Model ----
(***************************************************************************)
(* Practice-management MVP: users, cases, tasks, sessions.                 *)
(*   variant = "main" : FastAPI + raw SQL + in-memory token map (main.py)  *)
(*   variant = "app"  : Flask + ORM + framework session          (app.py)  *)
(* Spec handles one request at a time: a handler is one step, sending its   *)
(* response the next.                                                      *)
(* SpecConc runs the handlers that share the users table and the session   *)
(* map on worker threads, one statement of a handler per step.             *)
(* SpecSum applies summarise_text to texts over a small alphabet.          *)
(* Tables are sequences: the row id is the index (AUTOINCREMENT from 1).   *)
(* Title, client name and description of a case and the description of a   *)
(* task are opaque payload that no handler branches on; rows keep the      *)
(* columns the handlers read.                                              *)
(***************************************************************************)
EXTENDS Integers, Sequences, FiniteSets, TLC

VARIABLES variant, users, cases, tasks, sessions, issued, session, resp,
          threads, text, max_sentences, summary

vars == <<variant, users, cases, tasks, sessions, issued, session, resp,
          threads, text, max_sentences, summary>>

\* the input and the result of summarise_text (SpecSum)
sumvars == <<text, max_sentences, summary>>

------------------------------------------------------------------------------
\* Bound of the model: the store stops growing at MaxRows entries, counting
\* the cases, the tasks, the session tokens given out so far (main.py) and
\* the framework sessions that hold a user (app.py)
MaxRows == 4

\* Request inputs
Emails == {"", "a@x", "b@x"}
Passwords == {"", "p", "q"}
\* browsers, each with its own framework session (app.py)
Clients == {1, 2}
\* due_date form field: well-formed, malformed, or empty
DueDates == {"2026-01-31", "31/01/2026", ""}
\* description form field of a task: given or empty
TaskDescriptions == {"file brief", ""}

\* Python None for an Optional[int] user id (row ids start at 1)
None == 0
\* request.cookies.get("session_token") when the cookie is absent; tokens are
\* numbered from 1
NoToken == 0

------------------------------------------------------------------------------
\* Responses: what the client observes.  body is the template rendered or
\* the Location of a redirect, msg the error shown (template context, flash
\* or HTTPException detail), ref the id in the Location (/case/<id>, else 0),
\* cookie the session_token set by set_cookie (else NoToken).
Response(op, status, body, msg, ref, cookie) ==
    [op |-> op, status |-> status, body |-> body, msg |-> msg, ref |-> ref,
     cookie |-> cookie]

\* templates.TemplateResponse(name, {..., "error": msg}) / render_template(name)
Template(op, name, msg) == Response(op, 200, name, msg, 0, NoToken)

\* HTTPException(status_code, detail) / flask abort(status)
HttpError(op, status, detail) == Response(op, status, "", detail, 0, NoToken)

\* RedirectResponse(url, status_code=303)
RedirectResponse(op, url, ref) == Response(op, 303, url, "", ref, NoToken)

\* flask: flash(msg) then redirect(url_for(...))
redirect(op, url, msg, ref) == Response(op, 302, url, msg, ref, NoToken)

\* no request is being handled
NoResponse == Response("", 0, "", "", 0, NoToken)

------------------------------------------------------------------------------
\* Credentials

\* uuid.uuid4().hex for a salt: a value no earlier row was given; salts are
\* opaque, so the n-th row gets salt n
NewSalt(us) == Len(us) + 1

\* HMAC-SHA256 keyed by the salt: a deterministic function of (salt, password),
\* taken to be collision free
hash_password(password, salt) == <<salt, password>>

\* SELECT ... FROM users WHERE email = ?  (UNIQUE: at most one row)
UserIdsByEmail(us, email) == {i \in DOMAIN us : us[i].email = email}

\* create_user with the salt column filled from a second uuid4() call
create_user_resalted(us, email, password) ==
    IF UserIdsByEmail(us, email) # {}
    THEN us
    ELSE LET salt == NewSalt(us) IN
         Append(us, [email |-> email,
                     password_hash |-> hash_password(password, salt),
                     salt |-> salt + 1])

\* create_user: INSERT INTO users guarded by the UNIQUE constraint on email;
\* the table afterwards (unchanged on IntegrityError)
create_user(us, email, password) ==
    IF UserIdsByEmail(us, email) # {}
    THEN us
    ELSE LET salt == NewSalt(us) IN
         Append(us, [email |-> email,
                     password_hash |-> hash_password(password, salt),
                     salt |-> salt])

\* create_user's return value: cur.lastrowid, or None on IntegrityError
create_user_id(us, email) ==
    IF UserIdsByEmail(us, email) # {} THEN None ELSE Len(us) + 1

authenticate_user(us, email, password) ==
    LET rows == UserIdsByEmail(us, email) IN
    IF rows = {} THEN None
    ELSE LET id == CHOOSE i \in rows : TRUE IN
         IF hash_password(password, us[id].salt) = us[id].password_hash
         THEN id ELSE None

\* User.set_password: generate_password_hash salts the digest itself
set_password(us, password) == hash_password(password, NewSalt(us))

\* User.check_password: check_password_hash reads the salt out of the digest
check_password(user, password) ==
    hash_password(password, user.password_hash[1]) = user.password_hash

\* login (app.py): User.query.filter_by(email=email).first() and
\* user.check_password(password); the user's id, or None
flask_authenticate(us, email, password) ==
    LET rows == UserIdsByEmail(us, email) IN
    IF rows = {} THEN None
    ELSE LET id == CHOOSE i \in rows : TRUE IN
         IF check_password(us[id], password) THEN id ELSE None

------------------------------------------------------------------------------
\* Sessions (main.py)

get_current_user(ss, session_token) ==
    IF session_token # NoToken /\ session_token \in DOMAIN ss
    THEN ss[session_token] ELSE None

\* sessions[token] = user_id
StoreSession(ss, token, user_id) ==
    [t \in DOMAIN ss \cup {token} |-> IF t = token THEN user_id ELSE ss[t]]

\* logout that drops every session of the token's user
DestroySession_user(ss, token) ==
    IF token # NoToken /\ token \in DOMAIN ss
    THEN [t \in {x \in DOMAIN ss : ss[x] # ss[token]} |-> ss[t]]
    ELSE ss

\* if token and token in sessions: del sessions[token]
DestroySession(ss, token) ==
    IF token # NoToken /\ token \in DOMAIN ss
    THEN [t \in DOMAIN ss \ {token} |-> ss[t]]
    ELSE ss

\* uuid.uuid4().hex for a session token: a token no earlier login was given;
\* tokens are opaque, so the n-th login gets token n
NewToken(given) == Cardinality(given) + 1

------------------------------------------------------------------------------
\* Cases and tasks

\* get_case / Case.query.get: is there a row
CaseExists(cs, case_id) == case_id \in DOMAIN cs

\* ownership check that only looks for the row
NotOwned_missing(cs, case_id, user_id) == ~CaseExists(cs, case_id)

\* case is None or case["owner_id"] != user_id
NotOwned(cs, case_id, user_id) ==
    ~CaseExists(cs, case_id) \/ cs[case_id].owner_id # user_id

\* add_case: INSERT INTO cases
add_case(cs, owner_id) == Append(cs, [owner_id |-> owner_id])

\* a parser that takes any non-empty string for a date
strptime_ok_lenient(due_date) == due_date # ""

\* datetime.strptime(due_date, "%Y-%m-%d") does not raise ValueError
strptime_ok(due_date) == due_date = "2026-01-31"

\* add_task: INSERT INTO tasks; completed takes its default 0
add_task(ts, case_id, due_date) ==
    Append(ts, [case_id |-> case_id, due_date |-> due_date, completed |-> FALSE])

\* toggle that marks the task completed whatever it was
toggle_task_completion_set(ts, task_id) ==
    [ts EXCEPT ![task_id].completed = TRUE]

\* toggle_task_completion: SELECT completed, then UPDATE with its negation
toggle_task_completion(ts, task_id) ==
    [ts EXCEPT ![task_id].completed = ~ts[task_id].completed]

------------------------------------------------------------------------------
\* Text: a str is a sequence of one-character strings

\* Bound of the model: the longest text over Alphabet that is summarised
MaxLen == 4
\* Bound of the model: the largest max_sentences tried
MaxSentences == 2

Alphabet == {"a", ".", " "}

One == <<"O", "n", "e", ".">>
OneTwoThree ==
    <<"O", "n", "e", ".", " ", "T", "w", "o", ".", " ",
      "T", "h", "r", "e", "e", ".">>

Texts ==
    UNION {[1..n -> Alphabet] : n \in 0..MaxLen} \cup {One, OneTwoThree}

\* str.split("."): the pieces between the periods, empty ones included
RECURSIVE split(_)
split(s) ==
    IF \A i \in DOMAIN s : s[i] # "."
    THEN <<s>>
    ELSE LET i == CHOOSE j \in DOMAIN s :
                     s[j] = "." /\ \A h \in 1..(j - 1) : s[h] # "."
         IN <<SubSeq(s, 1, i - 1)>> \o split(SubSeq(s, i + 1, Len(s)))

\* str.strip(): without the leading and trailing blanks
RECURSIVE strip(_)
strip(s) ==
    IF s = <<>> THEN s
    ELSE IF Head(s) = " " THEN strip(Tail(s))
    ELSE IF s[Len(s)] = " " THEN strip(SubSeq(s, 1, Len(s) - 1))
    ELSE s

\* [s.strip() for s in text.split(".") if s.strip()]
sentences(t) ==
    LET pieces == split(t) IN
    SelectSeq([i \in DOMAIN pieces |-> strip(pieces[i])], LAMBDA x : x # <<>>)

\* ". ".join(parts)
RECURSIVE join(_)
join(parts) ==
    IF parts = <<>> THEN <<>>
    ELSE IF Len(parts) = 1 THEN parts[1]
    ELSE parts[1] \o <<".", " ">> \o join(Tail(parts))

Ellipsis == <<".", ".", ".">>

\* sentences[:max_sentences]
FirstSentences(ss, n) == SubSeq(ss, 1, IF Len(ss) < n THEN Len(ss) ELSE n)

summarise_text(t, n) ==
    LET ss == sentences(t) IN
    join(FirstSentences(ss, n)) \o (IF Len(ss) > n THEN Ellipsis ELSE <<>>)

------------------------------------------------------------------------------
\* Worker threads (SpecConc): what a thread is doing and what it holds in
\* its local variables; out is the response it ended with

Threads == {1, 2}

Thread(pc, email, password, token, user_id, out) ==
    [pc |-> pc, email |-> email, password |-> password, token |-> token,
     user_id |-> user_id, out |-> out]

Idle == Thread("idle", "", "", NoToken, None, NoResponse)

\* the handler returned or raised: its locals are gone
Done(out) == Thread("done", "", "", NoToken, None, out)

\* an exception no handler catches: the framework answers 500
InternalServerError(op, exception) == HttpError(op, 500, exception)

\* What a request may name: every row of the table and one id that is not in
\* it; every token given out so far, one never given out, or no cookie
CaseIds == 1..(Len(cases) + 1)
TaskIds == 1..(Len(tasks) + 1)
Cookies == 0..(Cardinality(issued) + 1)

Rows == Len(cases) + Len(tasks) + Cardinality(issued)
           + Cardinality({c \in Clients : session[c] # None})

------------------------------------------------------------------------------
\* the state after startup: init_db / db.create_all() made empty tables, no
\* session exists and no request is being handled
InitStore ==
    /\ variant \in {"main", "app"}
    /\ users = <<>>
    /\ cases = <<>>
    /\ tasks = <<>>
    /\ sessions = <<>>
    /\ issued = {}
    /\ session = [c \in Clients |-> None]
    /\ resp = NoResponse
    /\ threads = [th \in Threads |-> Idle]

Init ==
    /\ InitStore
    /\ text = <<>>
    /\ max_sentences = 2
    /\ summary = <<>>

------------------------------------------------------------------------------
\* main.py handlers.  For each handler H, H_response is the response H gives
\* in the current state and H the step that handles the request: it sends
\* that response and makes the change that goes with it.

\* require_login answering 401 instead of redirecting
LoginRedirect_401(op) == HttpError(op, 401, "Not authenticated")

\* require_login: raise HTTPException(303, headers={"Location": "/login"})
LoginRedirect(op) == Response(op, 303, "/login", "Redirect to login", 0, NoToken)

register_post_response(email, password) ==
    IF email = "" \/ password = ""
    THEN Template("register_post", "register.html", "Email and password required")
    ELSE IF create_user_id(users, email) = None
    THEN Template("register_post", "register.html", "Email already registered")
    ELSE RedirectResponse("register_post", "/login", 0)

register_post(email, password) ==
    /\ variant = "main"
    /\ resp = NoResponse
    /\ resp' = register_post_response(email, password)
    /\ users' = IF email = "" \/ password = "" THEN users
                ELSE create_user(users, email, password)
    /\ UNCHANGED <<threads, sumvars, variant, cases, tasks, sessions, issued, session>>

\* login that tells an unknown email from a wrong password
login_post_response_enum(email, password) ==
    IF UserIdsByEmail(users, email) = {}
    THEN Template("login_post", "login.html", "Unknown email")
    ELSE IF authenticate_user(users, email, password) = None
    THEN Template("login_post", "login.html", "Invalid credentials")
    ELSE Response("login_post", 303, "/dashboard", "", 0, NewToken(issued))

login_post_response(email, password) ==
    IF authenticate_user(users, email, password) = None
    THEN Template("login_post", "login.html", "Invalid credentials")
    ELSE Response("login_post", 303, "/dashboard", "", 0, NewToken(issued))

login_post(email, password) ==
    /\ variant = "main"
    /\ resp = NoResponse
    /\ resp' = login_post_response(email, password)
    /\ LET user_id == authenticate_user(users, email, password)
           token == NewToken(issued)
       IN IF user_id = None
          THEN UNCHANGED <<sessions, issued>>
          ELSE /\ Rows < MaxRows
               /\ sessions' = StoreSession(sessions, token, user_id)
               /\ issued' = issued \cup {token}
    /\ UNCHANGED <<threads, sumvars, variant, users, cases, tasks, session>>

logout_response(token) == RedirectResponse("logout", "/", 0)

logout(token) ==
    /\ variant = "main"
    /\ resp = NoResponse
    /\ resp' = logout_response(token)
    /\ sessions' = DestroySession(sessions, token)
    /\ UNCHANGED <<threads, sumvars, variant, users, cases, tasks, issued, session>>

dashboard_response(token) ==
    IF get_current_user(sessions, token) = None
    THEN LoginRedirect("dashboard")
    ELSE Template("dashboard", "dashboard.html", "")

dashboard(token) ==
    /\ variant = "main"
    /\ resp = NoResponse
    /\ resp' = dashboard_response(token)
    /\ UNCHANGED <<threads, sumvars, variant, users, cases, tasks, sessions, issued, session>>

new_case_get_response(token) ==
    IF get_current_user(sessions, token) = None
    THEN LoginRedirect("new_case_get")
    ELSE Template("new_case_get", "new_case.html", "")

new_case_get(token) ==
    /\ variant = "main"
    /\ resp = NoResponse
    /\ resp' = new_case_get_response(token)
    /\ UNCHANGED <<threads, sumvars, variant, users, cases, tasks, sessions, issued, session>>

new_case_post_response(token) ==
    IF get_current_user(sessions, token) = None
    THEN LoginRedirect("new_case_post")
    ELSE RedirectResponse("new_case_post", "/dashboard", 0)

new_case_post(token) ==
    /\ variant = "main"
    /\ resp = NoResponse
    /\ resp' = new_case_post_response(token)
    /\ LET user_id == get_current_user(sessions, token) IN
       IF user_id = None
       THEN UNCHANGED cases
       ELSE /\ Rows < MaxRows
            /\ cases' = add_case(cases, user_id)
    /\ UNCHANGED <<threads, sumvars, variant, users, tasks, sessions, issued, session>>

case_detail_response(token, case_id) ==
    LET user_id == get_current_user(sessions, token) IN
    IF user_id = None THEN LoginRedirect("case_detail")
    ELSE IF NotOwned(cases, case_id, user_id)
    THEN HttpError("case_detail", 404, "Case not found")
    ELSE Template("case_detail", "view_case.html", "")

case_detail(token, case_id) ==
    /\ variant = "main"
    /\ resp = NoResponse
    /\ resp' = case_detail_response(token, case_id)
    /\ UNCHANGED <<threads, sumvars, variant, users, cases, tasks, sessions, issued, session>>

add_task_route_response(token, case_id, due_date) ==
    LET user_id == get_current_user(sessions, token) IN
    IF user_id = None THEN LoginRedirect("add_task_route")
    ELSE IF NotOwned(cases, case_id, user_id)
    THEN HttpError("add_task_route", 404, "Case not found")
    ELSE IF ~strptime_ok(due_date)
    THEN HttpError("add_task_route", 400, "Invalid date format")
    ELSE RedirectResponse("add_task_route", "/case", case_id)

\* add_task runs only on the path that ends in the redirect to the case
add_task_route(token, case_id, due_date) ==
    /\ variant = "main"
    /\ resp = NoResponse
    /\ resp' = add_task_route_response(token, case_id, due_date)
    /\ IF add_task_route_response(token, case_id, due_date).status = 303
          /\ add_task_route_response(token, case_id, due_date).body = "/case"
       THEN /\ Rows < MaxRows
            /\ tasks' = add_task(tasks, case_id, due_date)
       ELSE UNCHANGED tasks
    /\ UNCHANGED <<threads, sumvars, variant, users, cases, sessions, issued, session>>

toggle_task_route_response(token, task_id) ==
    LET user_id == get_current_user(sessions, token) IN
    IF user_id = None THEN LoginRedirect("toggle_task_route")
    ELSE IF task_id \notin DOMAIN tasks
    THEN HttpError("toggle_task_route", 404, "Task not found")
    ELSE IF NotOwned(cases, tasks[task_id].case_id, user_id)
    THEN HttpError("toggle_task_route", 404, "Case not found")
    ELSE RedirectResponse("toggle_task_route", "/case", tasks[task_id].case_id)

\* toggle_task_completion runs only on the path that ends in the redirect to
\* the case
toggle_task_route(token, task_id) ==
    /\ variant = "main"
    /\ resp = NoResponse
    /\ resp' = toggle_task_route_response(token, task_id)
    /\ IF toggle_task_route_response(token, task_id).status = 303
          /\ toggle_task_route_response(token, task_id).body = "/case"
       THEN tasks' = toggle_task_completion(tasks, task_id)
       ELSE UNCHANGED tasks
    /\ UNCHANGED <<threads, sumvars, variant, users, cases, sessions, issued, session>>

summarise_case_response(token, case_id) ==
    LET user_id == get_current_user(sessions, token) IN
    IF user_id = None THEN LoginRedirect("summarise_case")
    ELSE IF NotOwned(cases, case_id, user_id)
    THEN HttpError("summarise_case", 404, "Case not found")
    ELSE Template("summarise_case", "summary.html", "")

summarise_case(token, case_id) ==
    /\ variant = "main"
    /\ resp = NoResponse
    /\ resp' = summarise_case_response(token, case_id)
    /\ UNCHANGED <<threads, sumvars, variant, users, cases, tasks, sessions, issued, session>>

------------------------------------------------------------------------------
\* app.py handlers.  The framework session of each client holds user_id or
\* nothing; every protected handler is wrapped by login_required.

\* login_required lets the request through: "user_id" in session
login_required(client) == session[client] # None

\* login_required: redirect(url_for("login"))
FlaskLoginRedirect(op) == redirect(op, "/login", "", 0)

register_response(email, password) ==
    IF email = "" \/ password = ""
    THEN redirect("register", "/register", "Email and password required", 0)
    ELSE IF UserIdsByEmail(users, email) # {}
    THEN redirect("register", "/register", "Email already registered", 0)
    ELSE redirect("register", "/login", "Registration successful. Please log in.", 0)

register(email, password) ==
    /\ variant = "app"
    /\ resp = NoResponse
    /\ resp' = register_response(email, password)
    /\ IF register_response(email, password).body = "/login"
       THEN users' = Append(users, [email |-> email,
                                    password_hash |-> set_password(users, password)])
       ELSE UNCHANGED users
    /\ UNCHANGED <<threads, sumvars, variant, cases, tasks, sessions, issued, session>>

login_response(client, email, password) ==
    IF flask_authenticate(users, email, password) # None
    THEN redirect("login", "/dashboard", "Logged in successfully", 0)
    ELSE Template("login", "login.html", "Invalid credentials")

login(client, email, password) ==
    /\ variant = "app"
    /\ resp = NoResponse
    /\ resp' = login_response(client, email, password)
    /\ LET user_id == flask_authenticate(users, email, password) IN
       IF user_id # None
       THEN /\ session[client] # None \/ Rows < MaxRows
            /\ session' = [session EXCEPT ![client] = user_id]
       ELSE UNCHANGED session
    /\ UNCHANGED <<threads, sumvars, variant, users, cases, tasks, sessions, issued>>

flask_logout(client) ==
    /\ variant = "app"
    /\ resp = NoResponse
    /\ session' = [session EXCEPT ![client] = None]
    /\ resp' = redirect("logout", "/", "Logged out", 0)
    /\ UNCHANGED <<threads, sumvars, variant, users, cases, tasks, sessions, issued>>

flask_dashboard_response(client) ==
    IF ~login_required(client) THEN FlaskLoginRedirect("dashboard")
    ELSE Template("dashboard", "dashboard.html", "")

flask_dashboard(client) ==
    /\ variant = "app"
    /\ resp = NoResponse
    /\ resp' = flask_dashboard_response(client)
    /\ UNCHANGED <<threads, sumvars, variant, users, cases, tasks, sessions, issued, session>>

\* new_case: GET renders the form; POST with fields_ok = title, client_name
\* and description are all given
new_case_response(client, method, fields_ok) ==
    IF ~login_required(client) THEN FlaskLoginRedirect("new_case")
    ELSE IF method = "GET" THEN Template("new_case", "new_case.html", "")
    ELSE IF ~fields_ok
    THEN redirect("new_case", "/case/new", "All fields are required", 0)
    ELSE redirect("new_case", "/dashboard", "Case created", 0)

new_case(client, method, fields_ok) ==
    /\ variant = "app"
    /\ resp = NoResponse
    /\ resp' = new_case_response(client, method, fields_ok)
    /\ IF new_case_response(client, method, fields_ok).body = "/dashboard"
       THEN /\ Rows < MaxRows
            /\ cases' = add_case(cases, session[client])
       ELSE UNCHANGED cases
    /\ UNCHANGED <<threads, sumvars, variant, users, tasks, sessions, issued, session>>

view_case_response(client, case_id) ==
    IF ~login_required(client) THEN FlaskLoginRedirect("view_case")
    ELSE IF ~CaseExists(cases, case_id)
    THEN HttpError("view_case", 404, "Not Found")
    ELSE IF cases[case_id].owner_id # session[client]
    THEN redirect("view_case", "/dashboard", "Access denied", 0)
    ELSE Template("view_case", "view_case.html", "")

view_case(client, case_id) ==
    /\ variant = "app"
    /\ resp = NoResponse
    /\ resp' = view_case_response(client, case_id)
    /\ UNCHANGED <<threads, sumvars, variant, users, cases, tasks, sessions, issued, session>>

new_task_response(client, case_id, description, due_date) ==
    IF ~login_required(client) THEN FlaskLoginRedirect("new_task")
    ELSE IF ~CaseExists(cases, case_id)
    THEN HttpError("new_task", 404, "Not Found")
    ELSE IF cases[case_id].owner_id # session[client]
    THEN redirect("new_task", "/dashboard", "Access denied", 0)
    ELSE IF description = "" \/ due_date = ""
    THEN redirect("new_task", "/case", "Description and due date required", case_id)
    ELSE IF ~strptime_ok(due_date)
    THEN redirect("new_task", "/case", "Invalid date format", case_id)
    ELSE redirect("new_task", "/case", "Task added", case_id)

new_task(client, case_id, description, due_date) ==
    /\ variant = "app"
    /\ resp = NoResponse
    /\ resp' = new_task_response(client, case_id, description, due_date)
    /\ IF new_task_response(client, case_id, description, due_date).msg = "Task added"
       THEN /\ Rows < MaxRows
            /\ tasks' = add_task(tasks, case_id, due_date)
       ELSE UNCHANGED tasks
    /\ UNCHANGED <<threads, sumvars, variant, users, cases, sessions, issued, session>>

complete_task_response(client, task_id) ==
    IF ~login_required(client) THEN FlaskLoginRedirect("complete_task")
    ELSE IF task_id \notin DOMAIN tasks
    THEN HttpError("complete_task", 404, "Not Found")
    ELSE IF cases[tasks[task_id].case_id].owner_id # session[client]
    THEN redirect("complete_task", "/dashboard", "Access denied", 0)
    ELSE redirect("complete_task", "/case", "", tasks[task_id].case_id)

complete_task(client, task_id) ==
    /\ variant = "app"
    /\ resp = NoResponse
    /\ resp' = complete_task_response(client, task_id)
    /\ IF complete_task_response(client, task_id).body = "/case"
       THEN tasks' = toggle_task_completion(tasks, task_id)
       ELSE UNCHANGED tasks
    /\ UNCHANGED <<threads, sumvars, variant, users, cases, sessions, issued, session>>

summarise_response(client, case_id) ==
    IF ~login_required(client) THEN FlaskLoginRedirect("summarise")
    ELSE IF ~CaseExists(cases, case_id)
    THEN HttpError("summarise", 404, "Not Found")
    ELSE IF cases[case_id].owner_id # session[client]
    THEN redirect("summarise", "/dashboard", "Access denied", 0)
    ELSE Template("summarise", "summary.html", "")

summarise(client, case_id) ==
    /\ variant = "app"
    /\ resp = NoResponse
    /\ resp' = summarise_response(client, case_id)
    /\ UNCHANGED <<threads, sumvars, variant, users, cases, tasks, sessions, issued, session>>

------------------------------------------------------------------------------
\* The server hands the response to the client and takes the next request
\* (Spec serves one request at a time).
send_response ==
    /\ resp # NoResponse
    /\ resp' = NoResponse
    /\ UNCHANGED <<threads, sumvars, variant, users, cases, tasks, sessions, issued, session>>

Next ==
    \/ send_response
    \/ \E e \in Emails, p \in Passwords : register_post(e, p)
    \/ \E e \in Emails, p \in Passwords : login_post(e, p)
    \/ \E t \in Cookies : logout(t)
    \/ \E t \in Cookies : dashboard(t)
    \/ \E t \in Cookies : new_case_get(t)
    \/ \E t \in Cookies : new_case_post(t)
    \/ \E t \in Cookies, c \in CaseIds : case_detail(t, c)
    \/ \E t \in Cookies, c \in CaseIds, d \in DueDates : add_task_route(t, c, d)
    \/ \E t \in Cookies, k \in TaskIds : toggle_task_route(t, k)
    \/ \E t \in Cookies, c \in CaseIds : summarise_case(t, c)
    \/ \E e \in Emails, p \in Passwords : register(e, p)
    \/ \E c \in Clients, e \in Emails, p \in Passwords : login(c, e, p)
    \/ \E c \in Clients : flask_logout(c)
    \/ \E c \in Clients : flask_dashboard(c)
    \/ \E c \in Clients, m \in {"GET", "POST"}, ok \in BOOLEAN : new_case(c, m, ok)
    \/ \E c \in Clients, i \in CaseIds : view_case(c, i)
    \/ \E c \in Clients, i \in CaseIds, ds \in TaskDescriptions, d \in DueDates :
          new_task(c, i, ds, d)
    \/ \E c \in Clients, k \in TaskIds : complete_task(c, k)
    \/ \E c \in Clients, i \in CaseIds : summarise(c, i)

Spec == Init /\ [][Next]_vars

------------------------------------------------------------------------------
\* SpecSum: summarise_text applied to every text of Texts

InitSum ==
    /\ InitStore
    /\ text \in Texts
    /\ max_sentences \in 1..MaxSentences
    /\ summary = <<>>

\* summary holds the value returned, wrapped: <<>> before the call
call_summarise_text ==
    /\ summary = <<>>
    /\ summary' = <<summarise_text(text, max_sentences)>>
    /\ UNCHANGED <<text, max_sentences, threads, resp, variant, users, cases,
                   tasks, sessions, issued, session>>

NextSum == call_summarise_text

SpecSum == InitSum /\ [][NextSum]_vars

------------------------------------------------------------------------------
\* SpecConc: requests handled on worker threads (FastAPI runs a def handler
\* in its thread pool; the Flask server is threaded).  A step is one
\* statement on the shared state: a SQL statement, a commit, a test or an
\* update of the sessions dict.

\* logins that hold a user_id and have not stored their token yet
PendingLogins == {th \in Threads : threads[th].pc = "login_post_store"}

\* register_post: the form check and create_user, whose INSERT the UNIQUE
\* constraint decides in one statement
t_register_post(th, email, password) ==
    /\ variant = "main"
    /\ threads[th] = Idle
    /\ threads' = [threads EXCEPT ![th] = Done(register_post_response(email, password))]
    /\ users' = IF email = "" \/ password = "" THEN users
                ELSE create_user(users, email, password)
    /\ UNCHANGED <<sumvars, resp, variant, cases, tasks, sessions, issued, session>>

\* login_post: user_id = authenticate_user(email, password)
t_login_post_authenticate(th, email, password) ==
    /\ variant = "main"
    /\ threads[th] = Idle
    /\ LET user_id == authenticate_user(users, email, password) IN
       IF user_id = None
       THEN threads' = [threads EXCEPT ![th] = Done(login_post_response(email, password))]
       ELSE /\ Rows + Cardinality(PendingLogins) < MaxRows
            /\ threads' = [threads EXCEPT
                             ![th] = Thread("login_post_store", "", "", NoToken,
                                            user_id, NoResponse)]
    /\ UNCHANGED <<sumvars, resp, variant, users, cases, tasks, sessions, issued, session>>

\* login_post: token = uuid.uuid4().hex; sessions[token] = user_id
t_login_post_store(th) ==
    /\ threads[th].pc = "login_post_store"
    /\ LET token == NewToken(issued) IN
       /\ sessions' = StoreSession(sessions, token, threads[th].user_id)
       /\ issued' = issued \cup {token}
       /\ threads' = [threads EXCEPT
                        ![th] = Done(Response("login_post", 303, "/dashboard", "", 0, token))]
    /\ UNCHANGED <<sumvars, resp, variant, users, cases, tasks, session>>

\* logout: if token and token in sessions
t_logout_check(th, token) ==
    /\ variant = "main"
    /\ threads[th] = Idle
    /\ threads' = [threads EXCEPT ![th] =
                      IF token # NoToken /\ token \in DOMAIN sessions
                      THEN Thread("logout_del", "", "", token, None, NoResponse)
                      ELSE Done(logout_response(token))]
    /\ UNCHANGED <<sumvars, resp, variant, users, cases, tasks, sessions, issued, session>>

\* logout: del sessions[token], a KeyError when the key is gone
t_logout_del(th) ==
    /\ threads[th].pc = "logout_del"
    /\ LET token == threads[th].token IN
       IF token \in DOMAIN sessions
       THEN /\ sessions' = DestroySession(sessions, token)
            /\ threads' = [threads EXCEPT ![th] = Done(logout_response(token))]
       ELSE /\ UNCHANGED sessions
            /\ threads' = [threads EXCEPT
                             ![th] = Done(InternalServerError("logout", "KeyError"))]
    /\ UNCHANGED <<sumvars, resp, variant, users, cases, tasks, issued, session>>

\* dashboard -> require_login -> get_current_user:
\* if session_token and session_token in sessions
t_get_current_user_check(th, token) ==
    /\ variant = "main"
    /\ threads[th] = Idle
    /\ threads' = [threads EXCEPT ![th] =
                      IF token # NoToken /\ token \in DOMAIN sessions
                      THEN Thread("get_current_user_read", "", "", token, None, NoResponse)
                      ELSE Done(LoginRedirect("dashboard"))]
    /\ UNCHANGED <<sumvars, resp, variant, users, cases, tasks, sessions, issued, session>>

\* get_current_user: return sessions[session_token], a KeyError when the key
\* is gone; then dashboard renders for the user
t_get_current_user_read(th) ==
    /\ threads[th].pc = "get_current_user_read"
    /\ threads' = [threads EXCEPT ![th] =
                      IF threads[th].token \in DOMAIN sessions
                      THEN Done(Template("dashboard", "dashboard.html", ""))
                      ELSE Done(InternalServerError("dashboard", "KeyError"))]
    /\ UNCHANGED <<sumvars, resp, variant, users, cases, tasks, sessions, issued, session>>

\* register (app.py): the form check and User.query.filter_by(email).first()
t_register_query(th, email, password) ==
    /\ variant = "app"
    /\ threads[th] = Idle
    /\ threads' = [threads EXCEPT ![th] =
                      IF email = "" \/ password = "" \/ UserIdsByEmail(users, email) # {}
                      THEN Done(register_response(email, password))
                      ELSE Thread("register_commit", email, password, NoToken, None,
                                  NoResponse)]
    /\ UNCHANGED <<sumvars, resp, variant, users, cases, tasks, sessions, issued, session>>

\* register (app.py): db.session.add(user); db.session.commit().  The column
\* is unique=True: the INSERT of an email that is there by now raises
\* IntegrityError, which register does not catch
t_register_commit(th) ==
    /\ threads[th].pc = "register_commit"
    /\ LET email == threads[th].email
           password == threads[th].password
       IN IF UserIdsByEmail(users, email) # {}
          THEN /\ UNCHANGED users
               /\ threads' = [threads EXCEPT
                                ![th] = Done(InternalServerError("register", "IntegrityError"))]
          ELSE /\ users' = Append(users, [email |-> email,
                                          password_hash |-> set_password(users, password)])
               /\ threads' = [threads EXCEPT
                                ![th] = Done(redirect("register", "/login",
                                       "Registration successful. Please log in.", 0))]
    /\ UNCHANGED <<sumvars, resp, variant, cases, tasks, sessions, issued, session>>

\* the response is sent and the thread goes back to the pool
t_return(th) ==
    /\ threads[th].pc = "done"
    /\ threads' = [threads EXCEPT ![th] = Idle]
    /\ UNCHANGED <<sumvars, resp, variant, users, cases, tasks, sessions, issued, session>>

NextConc ==
    \/ \E th \in Threads, e \in Emails, p \in Passwords : t_register_post(th, e, p)
    \/ \E th \in Threads, e \in Emails, p \in Passwords : t_login_post_authenticate(th, e, p)
    \/ \E th \in Threads : t_login_post_store(th)
    \/ \E th \in Threads, t \in Cookies : t_logout_check(th, t)
    \/ \E th \in Threads : t_logout_del(th)
    \/ \E th \in Threads, t \in Cookies : t_get_current_user_check(th, t)
    \/ \E th \in Threads : t_get_current_user_read(th)
    \/ \E th \in Threads, e \in Emails, p \in Passwords : t_register_query(th, e, p)
    \/ \E th \in Threads : t_register_commit(th)
    \/ \E th \in Threads : t_return(th)

SpecConc == Init /\ [][NextConc]_vars

------------------------------------------------------------------------------
\* SpecToggle: toggle requests handled on worker threads, one SQL statement
\* per step, over users, cases and tasks set up by requests handled one at a
\* time.  Every request opens its own connection (get_db_connection) or
\* session, and no transaction spans the read and the UPDATE.

\* the frame of a running toggle: the task, the value it will write and the
\* response it will return
TogglingThread(pc, task_id, new_status, out) ==
    [pc |-> pc, task_id |-> task_id, new_status |-> new_status, out |-> out]

\* toggle_task_route up to the call of toggle_task_completion: require_login,
\* SELECT case_id, get_case and the ownership test.  No route deletes a task
\* or a case, so what these reads found stays true.
t_toggle_task_route_check(th, token, task_id) ==
    /\ variant = "main"
    /\ threads[th] = Idle
    /\ LET out == toggle_task_route_response(token, task_id) IN
       threads' = [threads EXCEPT ![th] =
                     IF out.status = 303 /\ out.body = "/case"
                     THEN TogglingThread("toggle_task_completion_select", task_id, FALSE, out)
                     ELSE Done(out)]
    /\ UNCHANGED <<sumvars, resp, variant, users, cases, tasks, sessions, issued, session>>

\* toggle_task_completion: SELECT completed;
\* new_status = 0 if row["completed"] else 1
t_toggle_task_completion_select(th) ==
    /\ threads[th].pc = "toggle_task_completion_select"
    /\ LET task_id == threads[th].task_id
           new_status == toggle_task_completion(tasks, task_id)[task_id].completed
       IN threads' = [threads EXCEPT ![th] =
                        TogglingThread("toggle_task_completion_update", task_id,
                                       new_status, threads[th].out)]
    /\ UNCHANGED <<sumvars, resp, variant, users, cases, tasks, sessions, issued, session>>

\* toggle_task_completion: UPDATE tasks SET completed = new_status; commit
t_toggle_task_completion_update(th) ==
    /\ threads[th].pc = "toggle_task_completion_update"
    /\ tasks' = [tasks EXCEPT ![threads[th].task_id].completed = threads[th].new_status]
    /\ threads' = [threads EXCEPT ![th] = Done(threads[th].out)]
    /\ UNCHANGED <<sumvars, resp, variant, users, cases, sessions, issued, session>>

\* complete_task: Task.query.get_or_404 loads the row, the ownership test,
\* then task.completed = not task.completed on the loaded object
t_complete_task_query(th, client, task_id) ==
    /\ variant = "app"
    /\ threads[th] = Idle
    /\ LET out == complete_task_response(client, task_id) IN
       threads' = [threads EXCEPT ![th] =
                     IF out.body = "/case"
                     THEN TogglingThread("complete_task_commit", task_id,
                                         toggle_task_completion(tasks, task_id)[task_id].completed,
                                         out)
                     ELSE Done(out)]
    /\ UNCHANGED <<sumvars, resp, variant, users, cases, tasks, sessions, issued, session>>

\* complete_task: db.session.commit() flushes UPDATE task SET completed
t_complete_task_commit(th) ==
    /\ threads[th].pc = "complete_task_commit"
    /\ tasks' = [tasks EXCEPT ![threads[th].task_id].completed = threads[th].new_status]
    /\ threads' = [threads EXCEPT ![th] = Done(threads[th].out)]
    /\ UNCHANGED <<sumvars, resp, variant, users, cases, sessions, issued, session>>

NextToggle ==
    \/ send_response
    \/ \E e \in Emails, p \in Passwords : register_post(e, p)
    \/ \E e \in Emails, p \in Passwords : login_post(e, p)
    \/ \E t \in Cookies : new_case_post(t)
    \/ \E t \in Cookies, c \in CaseIds, d \in DueDates : add_task_route(t, c, d)
    \/ \E e \in Emails, p \in Passwords : register(e, p)
    \/ \E c \in Clients, e \in Emails, p \in Passwords : login(c, e, p)
    \/ \E c \in Clients, m \in {"GET", "POST"}, ok \in BOOLEAN : new_case(c, m, ok)
    \/ \E c \in Clients, i \in CaseIds, ds \in TaskDescriptions, d \in DueDates :
          new_task(c, i, ds, d)
    \/ \E th \in Threads, t \in Cookies, k \in TaskIds : t_toggle_task_route_check(th, t, k)
    \/ \E th \in Threads : t_toggle_task_completion_select(th)
    \/ \E th \in Threads : t_toggle_task_completion_update(th)
    \/ \E th \in Threads, c \in Clients, k \in TaskIds : t_complete_task_query(th, c, k)
    \/ \E th \in Threads : t_complete_task_commit(th)
    \/ \E th \in Threads : t_return(th)

SpecToggle == Init /\ [][NextToggle]_vars

------------------------------------------------------------------------------
\* Properties of Spec

\* every table and session store; what a read-only or refused request leaves
\* alone
store == <<users, cases, tasks, sessions, issued, session>>

\* C1 (main.py): a successful login_post stores a token never given out
\* before that resolves to the authenticated user; a token in the map keeps
\* resolving to the same user across every step other than a logout
\* presenting it (logouts presenting other tokens included); a logout
\* presenting it makes it resolve to None, and a token once removed resolves
\* to None after every later step.
C1_Step ==
    /\ DOMAIN sessions' \subseteq issued'
    /\ resp'.op = "login_post" =>
          \A e \in Emails, p \in Passwords :
             (login_post(e, p) /\ authenticate_user(users, e, p) # None) =>
                /\ resp'.cookie \notin issued
                /\ resp'.cookie # NoToken
                /\ get_current_user(sessions', resp'.cookie)
                      = authenticate_user(users, e, p)
    /\ \A t \in DOMAIN sessions :
          /\ resp'.op # "logout" => get_current_user(sessions', t) = sessions[t]
          /\ logout(t) => get_current_user(sessions', t) = None
          /\ \A other \in Cookies \ {t} :
                logout(other) => get_current_user(sessions', t) = sessions[t]
    /\ \A t \in issued \ DOMAIN sessions :
          get_current_user(sessions', t) = None

C1_SessionLifetime == [][C1_Step]_vars

\* C1 witness: a logout has just destroyed one token while another token,
\* given out by another login, still resolves to its user
C1_Witness ==
    /\ resp.op = "logout"
    /\ \E t \in issued : get_current_user(sessions, t) = None
    /\ \E t \in issued : get_current_user(sessions, t) # None

\* C2 (both variants): for every case c and every authenticated user that is
\* not its owner, view, add-task, toggle-task and summarise requests on c are
\* refused (404 in main.py; "Access denied" in app.py), and a step that ends
\* in a refusal leaves cases and tasks unchanged; for the owner, view and
\* summarise render the page, a toggle is accepted and flips the flag, and an
\* add-task request with a well-formed form is accepted and inserts the task.
C2_Main(t, c) ==
    LET u == get_current_user(sessions, t) IN
    IF cases[c].owner_id # u
    THEN /\ case_detail_response(t, c).status = 404
         /\ summarise_case_response(t, c).status = 404
         /\ \A d \in DueDates : add_task_route_response(t, c, d).status = 404
         /\ \A k \in DOMAIN tasks : tasks[k].case_id = c =>
               toggle_task_route_response(t, k).status = 404
    ELSE /\ case_detail_response(t, c) = Template("case_detail", "view_case.html", "")
         /\ summarise_case_response(t, c) = Template("summarise_case", "summary.html", "")
         /\ \A d \in DueDates : strptime_ok(d) =>
               add_task_route_response(t, c, d)
                  = RedirectResponse("add_task_route", "/case", c)
         /\ \A k \in DOMAIN tasks : tasks[k].case_id = c =>
               toggle_task_route_response(t, k)
                  = RedirectResponse("toggle_task_route", "/case", c)

C2_App(cl, c) ==
    IF cases[c].owner_id # session[cl]
    THEN /\ view_case_response(cl, c).msg = "Access denied"
         /\ summarise_response(cl, c).msg = "Access denied"
         /\ \A ds \in TaskDescriptions, d \in DueDates :
               new_task_response(cl, c, ds, d).msg = "Access denied"
         /\ \A k \in DOMAIN tasks : tasks[k].case_id = c =>
               complete_task_response(cl, k).msg = "Access denied"
    ELSE /\ view_case_response(cl, c) = Template("view_case", "view_case.html", "")
         /\ summarise_response(cl, c) = Template("summarise", "summary.html", "")
         /\ \A ds \in TaskDescriptions, d \in DueDates :
               (ds # "" /\ strptime_ok(d)) =>
                  new_task_response(cl, c, ds, d)
                     = redirect("new_task", "/case", "Task added", c)
         /\ \A k \in DOMAIN tasks : tasks[k].case_id = c =>
               complete_task_response(cl, k)
                  = redirect("complete_task", "/case", "", c)

\* the responses, in every state in which the server takes a request
C2_Responses ==
    resp = NoResponse =>
       /\ variant = "main" =>
             \A t \in Cookies, c \in DOMAIN cases :
                get_current_user(sessions, t) # None => C2_Main(t, c)
       /\ variant = "app" =>
             \A cl \in Clients, c \in DOMAIN cases :
                session[cl] # None => C2_App(cl, c)

CaseRoutes ==
    {"case_detail", "add_task_route", "toggle_task_route", "summarise_case",
     "view_case", "new_task", "complete_task", "summarise"}

\* the steps: a refusal changes nothing, an accepted add-task appends one task
\* of the case named, an accepted toggle flips the task named
C2_Effects ==
    resp'.op \in CaseRoutes =>
       /\ (resp'.status = 404 \/ resp'.msg = "Access denied") =>
             UNCHANGED <<cases, tasks>>
       /\ (resp'.op \in {"add_task_route", "new_task"} /\ resp'.body = "/case"
              /\ resp'.msg \in {"", "Task added"}) =>
             /\ Len(tasks') = Len(tasks) + 1
             /\ tasks'[Len(tasks')].case_id = resp'.ref
             /\ \A k \in DOMAIN tasks : tasks'[k] = tasks[k]
       /\ \A t \in Cookies, k \in DOMAIN tasks :
             (toggle_task_route(t, k) /\ resp'.body = "/case") =>
                tasks'[k].completed # tasks[k].completed
       /\ \A cl \in Clients, k \in DOMAIN tasks :
             (complete_task(cl, k) /\ resp'.body = "/case") =>
                tasks'[k].completed # tasks[k].completed

C2_OwnershipCheck == []C2_Responses /\ [][C2_Effects]_vars

\* C2 witness: a logged-in user has just been refused the toggle of a task
\* of another user's case (the only way to this response), and the task is
\* as its owner left it
C2_Witness ==
    /\ resp = HttpError("toggle_task_route", 404, "Case not found")
    /\ \E k \in DOMAIN tasks : tasks[k].completed
\* C4: a registration of a non-empty email not yet registered with a
\* non-empty password creates user u (create_user's return value), and
\* authentication with the same email and password returns u right after
\* it; whatever credentials authenticate as some user keep authenticating as
\* that user after every later step.
C4_Step ==
    /\ resp'.op = "register_post" =>
          \A e \in Emails \ {""}, p \in Passwords \ {""} :
             (UserIdsByEmail(users, e) = {} /\ register_post(e, p)) =>
                /\ create_user_id(users, e) # None
                /\ authenticate_user(users', e, p) = create_user_id(users, e)
    /\ resp'.op = "register" =>
          \A e \in Emails \ {""}, p \in Passwords \ {""} :
             (UserIdsByEmail(users, e) = {} /\ register(e, p)) =>
                flask_authenticate(users', e, p) = Len(users) + 1
    /\ \A e \in Emails, p \in Passwords :
          /\ (variant = "main" /\ authenticate_user(users, e, p) # None) =>
                authenticate_user(users', e, p) = authenticate_user(users, e, p)
          /\ (variant = "app" /\ flask_authenticate(users, e, p) # None) =>
                flask_authenticate(users', e, p) = flask_authenticate(users, e, p)

C4_RegisterThenAuthenticate == [][C4_Step]_vars

\* C4 witness: a re-registration of a registered email has just been
\* rejected, two users exist, and each still authenticates with the password
\* it registered with and with no other
C4_Witness ==
    /\ resp = Template("register_post", "register.html", "Email already registered")
    /\ Len(users) = 2
    /\ \A i \in DOMAIN users :
          Cardinality({p \in Passwords :
                          authenticate_user(users, users[i].email, p) = i}) = 1

\* C5: a login with a wrong password for a registered email and a login for
\* an email that is not registered get the same response, the login page with
\* "Invalid credentials" and no cookie, and the step that handles either one
\* creates no session and changes nothing stored.
C5_Responses ==
    resp = NoResponse =>
       \A e1 \in Emails, e2 \in Emails, p1 \in Passwords, p2 \in Passwords :
          (UserIdsByEmail(users, e1) # {} /\ UserIdsByEmail(users, e2) = {}) =>
             /\ (variant = "main" /\ authenticate_user(users, e1, p1) = None) =>
                   /\ login_post_response(e1, p1) = login_post_response(e2, p2)
                   /\ login_post_response(e2, p2)
                         = Template("login_post", "login.html", "Invalid credentials")
             /\ (variant = "app" /\ flask_authenticate(users, e1, p1) = None) =>
                   \A cl \in Clients :
                      /\ login_response(cl, e1, p1) = login_response(cl, e2, p2)
                      /\ login_response(cl, e2, p2)
                            = Template("login", "login.html", "Invalid credentials")

C5_Effects ==
    (resp'.op \in {"login_post", "login"} /\ resp'.status = 200) =>
       /\ UNCHANGED store
       /\ resp'.cookie = NoToken

C5_LoginFailuresAlike == []C5_Responses /\ [][C5_Effects]_vars

\* C5 witness: a login has just failed while one email is registered and
\* another is not
C5_Witness ==
    /\ resp = Template("login_post", "login.html", "Invalid credentials")
    /\ UserIdsByEmail(users, "a@x") # {}
    /\ UserIdsByEmail(users, "b@x") = {}

\* C7 (both variants): an accepted toggle of task k negates k's completed
\* flag, leaves every other task, every case and every user as it was, and a
\* second toggle of k applied to the result gives back the tasks table as it
\* was before the first.
C7_Toggled(k) ==
    /\ tasks'[k].completed = ~tasks[k].completed
    /\ DOMAIN tasks' = DOMAIN tasks
    /\ \A j \in DOMAIN tasks \ {k} : tasks'[j] = tasks[j]
    /\ tasks'[k].case_id = tasks[k].case_id
    /\ UNCHANGED <<users, cases>>
    /\ toggle_task_completion(tasks', k) = tasks
    /\ toggle_task_completion(tasks', k)[k].completed = tasks[k].completed

C7_Step ==
    /\ (resp'.op = "toggle_task_route" /\ resp'.body = "/case") =>
          \A t \in Cookies, k \in DOMAIN tasks :
             toggle_task_route(t, k) => C7_Toggled(k)
    /\ (resp'.op = "complete_task" /\ resp'.body = "/case") =>
          \A cl \in Clients, k \in DOMAIN tasks :
             complete_task(cl, k) => C7_Toggled(k)

C7_ToggleTwice == [][C7_Step]_vars

\* C7 witness: a toggle has just been accepted and brought a task back to
\* not completed, while another task is completed
C7_Witness ==
    /\ resp.op = "toggle_task_route" /\ resp.body = "/case"
    /\ \E j \in DOMAIN tasks, k \in DOMAIN tasks :
          tasks[j].completed /\ ~tasks[k].completed

\* C8 (both variants): every protected handler answers a request without a
\* cookie, with a token that was never given out or with a token that a
\* logout removed (app.py: from a client whose session holds no user) with a
\* redirect to /login, and the step that handles it changes no table and no
\* session.
IsLoginRedirect(r) == r.status \in {302, 303} /\ r.body = "/login"

C8_Main(t) ==
    /\ IsLoginRedirect(dashboard_response(t))
    /\ IsLoginRedirect(new_case_get_response(t))
    /\ IsLoginRedirect(new_case_post_response(t))
    /\ \A c \in CaseIds :
          /\ IsLoginRedirect(case_detail_response(t, c))
          /\ IsLoginRedirect(summarise_case_response(t, c))
          /\ \A d \in DueDates : IsLoginRedirect(add_task_route_response(t, c, d))
    /\ \A k \in TaskIds : IsLoginRedirect(toggle_task_route_response(t, k))

C8_App(cl) ==
    /\ IsLoginRedirect(flask_dashboard_response(cl))
    /\ \A m \in {"GET", "POST"}, ok \in BOOLEAN :
          IsLoginRedirect(new_case_response(cl, m, ok))
    /\ \A c \in CaseIds :
          /\ IsLoginRedirect(view_case_response(cl, c))
          /\ IsLoginRedirect(summarise_response(cl, c))
          /\ \A ds \in TaskDescriptions, d \in DueDates :
                IsLoginRedirect(new_task_response(cl, c, ds, d))
    /\ \A k \in TaskIds : IsLoginRedirect(complete_task_response(cl, k))

C8_Responses ==
    resp = NoResponse =>
       /\ variant = "main" =>
             \A t \in Cookies : (t = NoToken \/ t \notin DOMAIN sessions) => C8_Main(t)
       /\ variant = "app" =>
             \A cl \in Clients : session[cl] = None => C8_App(cl)

ProtectedRoutes ==
    CaseRoutes \cup {"dashboard", "new_case_get", "new_case_post", "new_case"}

C8_Effects ==
    (resp'.op \in ProtectedRoutes /\ IsLoginRedirect(resp')) => UNCHANGED store

C8_LoginRequired == []C8_Responses /\ [][C8_Effects]_vars

\* C8 witness: a toggle request has just been redirected to /login although
\* a task exists, after a logout removed a token from the map
C8_Witness ==
    /\ resp.op = "toggle_task_route" /\ IsLoginRedirect(resp)
    /\ tasks # <<>>
    /\ issued \ DOMAIN sessions # {}

\* C6, as claimed: summarise_text(text, N) puts the ellipsis at the end
\* exactly when the text has more than N sentences; a text of at most N
\* sentences, each ended by a period and separated by one blank, comes back
\* unchanged, its last period included; summarise_text("One. Two. Three.", 2)
\* is "One. Two..." and summarise_text("One.", 2) is "One.".
EndsWith(s, tail) ==
    /\ Len(s) >= Len(tail)
    /\ SubSeq(s, Len(s) - Len(tail) + 1, Len(s)) = tail

C6_SummaryAsClaimed ==
    summary # <<>> =>
       LET out == summary[1]
           ss == sentences(text)
       IN /\ EndsWith(out, Ellipsis) <=> Len(ss) > max_sentences
          /\ (ss # <<>> /\ Len(ss) <= max_sentences /\ text = join(ss) \o <<".">>) =>
                out = text
          /\ (text = OneTwoThree /\ max_sentences = 2) =>
                out = <<"O", "n", "e", ".", " ", "T", "w", "o", ".", ".", ".">>
          /\ (text = One /\ max_sentences = 2) => out = One

\* C3, as claimed: a registration request for an email that is registered
\* when the request ends was answered with the duplicate-email error unless
\* it is the one request that created the row, also when two requests
\* interleave; and no two rows hold the same email.  (Every registration
\* request ends as created, as duplicate email or as a form error.)
RegisterResponses ==
    {Template("register_post", "register.html", "Email and password required"),
     Template("register_post", "register.html", "Email already registered"),
     RedirectResponse("register_post", "/login", 0),
     redirect("register", "/register", "Email and password required", 0),
     redirect("register", "/register", "Email already registered", 0),
     redirect("register", "/login", "Registration successful. Please log in.", 0)}

C3_DuplicateEmailRejected ==
    /\ \A i \in DOMAIN users, j \in DOMAIN users :
          users[i].email = users[j].email => i = j
    /\ \A th \in Threads :
          (threads[th].pc = "done" /\ threads[th].out.op \in {"register_post", "register"})
             => threads[th].out \in RegisterResponses

\* C10, as claimed: whatever the interleaving of login_post, logout and
\* get_current_user, no request ends in an error because a token it found in
\* the map was removed before it read or deleted it: every request ends as
\* authenticated or as "no identity".
C10_SessionMapSafe ==
    \A th \in Threads :
       threads[th].pc = "done" => threads[th].out.msg # "KeyError"

\* C9 (both variants), as claimed: an authenticated user gets the same
\* response for a request naming an entity that does not exist as for one
\* naming an entity of another user, on the case routes and on the toggle
\* route.
C9_Main(t) ==
    LET u == get_current_user(sessions, t)
        missing_case == Len(cases) + 1
        missing_task == Len(tasks) + 1
    IN /\ \A c \in DOMAIN cases : cases[c].owner_id # u =>
             /\ case_detail_response(t, c) = case_detail_response(t, missing_case)
             /\ summarise_case_response(t, c) = summarise_case_response(t, missing_case)
             /\ \A d \in DueDates :
                   add_task_route_response(t, c, d)
                      = add_task_route_response(t, missing_case, d)
       /\ \A k \in DOMAIN tasks : cases[tasks[k].case_id].owner_id # u =>
             toggle_task_route_response(t, k)
                = toggle_task_route_response(t, missing_task)

C9_App(cl) ==
    LET u == session[cl]
        missing_case == Len(cases) + 1
        missing_task == Len(tasks) + 1
    IN /\ \A c \in DOMAIN cases : cases[c].owner_id # u =>
             /\ view_case_response(cl, c) = view_case_response(cl, missing_case)
             /\ summarise_response(cl, c) = summarise_response(cl, missing_case)
             /\ \A ds \in TaskDescriptions, d \in DueDates :
                   new_task_response(cl, c, ds, d)
                      = new_task_response(cl, missing_case, ds, d)
       /\ \A k \in DOMAIN tasks : cases[tasks[k].case_id].owner_id # u =>
             complete_task_response(cl, k)
                = complete_task_response(cl, missing_task)

C9_NoExistenceLeak ==
    /\ variant = "main" =>
          \A t \in Cookies : get_current_user(sessions, t) # None => C9_Main(t)
    /\ variant = "app" =>
          \A cl \in Clients : session[cl] # None => C9_App(cl)

------------------------------------------------------------------------------
\* due dates that are empty or not YYYY-MM-DD
C11_BadDates == {"31/01/2026", ""}

\* the responses that report a rejected form: 400 "Invalid date format"
\* (main.py), or a flashed message and the redirect back to the case (app.py)
C11_ValidationError(r) ==
    \/ r.status = 400 /\ r.msg = "Invalid date format"
    \/ /\ r.status = 302
       /\ r.body = "/case"
       /\ r.msg \in {"Description and due date required", "Invalid date format"}

\* the responses that report an inserted task
C11_TaskAdded(r) ==
    \/ r.op = "add_task_route" /\ r.status = 303 /\ r.body = "/case"
    \/ r.op = "new_task" /\ r.msg = "Task added"

C11_Responses ==
    /\ variant = "main" =>
          \A t \in Cookies, c \in CaseIds, d \in DueDates :
             LET u == get_current_user(sessions, t)
                 r == add_task_route_response(t, c, d)
                 owner == u # None /\ c \in DOMAIN cases /\ cases[c].owner_id = u
             IN /\ (owner /\ d \in C11_BadDates) => C11_ValidationError(r)
                /\ C11_TaskAdded(r) => (owner /\ d \notin C11_BadDates)
    /\ variant = "app" =>
          \A cl \in Clients, c \in CaseIds, ds \in TaskDescriptions, d \in DueDates :
             LET u == session[cl]
                 r == new_task_response(cl, c, ds, d)
                 owner == u # None /\ c \in DOMAIN cases /\ cases[c].owner_id = u
             IN /\ (owner /\ d \in C11_BadDates) => C11_ValidationError(r)
                /\ C11_TaskAdded(r) => (owner /\ d \notin C11_BadDates)

C11_Effects ==
    resp'.op \in {"add_task_route", "new_task"} =>
       /\ C11_ValidationError(resp') => UNCHANGED store
       /\ tasks' # tasks =>
             /\ C11_TaskAdded(resp')
             /\ Len(tasks') = Len(tasks) + 1
             /\ SubSeq(tasks', 1, Len(tasks)) = tasks
             /\ tasks'[Len(tasks')].due_date \notin C11_BadDates
             /\ tasks'[Len(tasks')].case_id = resp'.ref
             /\ tasks'[Len(tasks')].case_id \in DOMAIN cases
       /\ UNCHANGED <<users, cases, sessions, issued, session>>

\* C11 (both variants): an add-task request by the owner of the case with an
\* empty or unparseable due date is answered with a validation error and
\* changes no user, case, task or session; a task row is inserted only by a
\* request whose sender owns the case and whose due date parsed, and the
\* insert leaves every existing row as it was.
C11_BadDueDateRejected == []C11_Responses /\ [][C11_Effects]_vars

\* the owner of a case that already has a task has just been refused a task
\* with a bad due date
C11_Witness ==
    /\ resp.op \in {"add_task_route", "new_task"}
    /\ resp.msg = "Invalid date format"
    /\ Len(tasks) > 0

------------------------------------------------------------------------------
\* Properties of SpecToggle

\* C12 (both variants), as claimed: toggle requests by the owner that are
\* handled concurrently each take effect, whatever the interleaving of their
\* reads and writes: the write of every toggle negates the flag as it stands,
\* so that the flag is back at its original value after two of them and no
\* toggle is lost to a value read before another request's write.
C12_Step ==
    \A th \in Threads :
       (/\ threads[th].pc \in {"toggle_task_completion_update", "complete_task_commit"}
        /\ threads'[th].pc = "done")
          => tasks'[threads[th].task_id].completed
                = ~tasks[threads[th].task_id].completed

C12_ConcurrentTogglesTakeEffect == [][C12_Step]_vars
====
